---------------------------- MODULE Spec2Model ----------------------------
(***************************************************************************)
(* sdkscan: detection of the SDKs an Android package was built with.      *)
(*                                                                         *)
(*   src/src/sdkscan/core.py  XAPKManifest, Sdks, SdkDetectors, the       *)
(*                            detectors is_android_dalvik .. is_unreal_   *)
(*                            engine, and scan                             *)
(*   src/src/sdkscan/cli.py   the bulk command `scan`                      *)
(*                                                                         *)
(* Entry names and texts are strings; the regular expressions of the      *)
(* detectors are matched character by character (MatchAt, Search).  The   *)
(* bytes of an archive entry are described by what the three readers of   *)
(* the code make of them: bytes.decode("utf-8") (utf8, text),             *)
(* XAPKManifest.model_validate_json (manifest) and zipfile.ZipFile (apk). *)
(* A flag set (the IntFlag Sdks, one distinct bit per member) is the set  *)
(* of the names of its members.                                            *)
(***************************************************************************)
EXTENDS Integers, Sequences, FiniteSets, TLC

VARIABLES
    stack,      \* the active calls of core.scan, outermost first
    ret,        \* what the call that ended last handed to its caller
    handles,    \* the ZipFile objects that are open
    nextHandle, \* the number of ZipFile objects opened so far, plus one
    root,       \* the package the outermost core.scan was called on
    calls,      \* how many calls of core.scan have been started
    maxDepth,   \* the deepest nesting of calls of core.scan so far
    cli         \* the state of the command cli.scan

vars == <<stack, ret, handles, nextHandle, root, calls, maxDepth, cli>>

---------------------------------------------------------------------------
(* Bounds of the model. *)

\* entries of the plain archives built from EntryPool
MaxEntries == 2
\* members listed in split_apks
MaxMembers == 2
\* manifest-wrapped packages nested inside one another
MaxNesting == 3
\* input paths of one run of the command
MaxBatch == 2

---------------------------------------------------------------------------
(* Regular expressions, as re.search applies them to a str.               *)
(* A pattern is a sequence of atoms.                                       *)

Lit(s) == [i \in 1..Len(s) |-> [t |-> "lit", c |-> SubSeq(s, i, i)]]
Dot == <<[t |-> "dot", c |-> ""]>>
DotStar == <<[t |-> "dotstar", c |-> ""]>>
DigitPlus == <<[t |-> "digitplus", c |-> ""]>>
Bos == <<[t |-> "bos", c |-> ""]>>
Eos == <<[t |-> "eos", c |-> ""]>>

Digits == {"0", "1", "2", "3", "4", "5", "6", "7", "8", "9"}

CharAt(s, i) == SubSeq(s, i, i)

\* pat[k..] matches a part of s that starts at position i
RECURSIVE MatchAt(_, _, _, _)
MatchAt(pat, k, s, i) ==
    IF k > Len(pat) THEN TRUE
    ELSE LET a == pat[k] IN
         CASE a.t = "lit" ->
                /\ i <= Len(s)
                /\ CharAt(s, i) = a.c
                /\ MatchAt(pat, k + 1, s, i + 1)
           [] a.t = "dot" ->
                /\ i <= Len(s)
                /\ CharAt(s, i) # "\n"
                /\ MatchAt(pat, k + 1, s, i + 1)
           [] a.t = "dotstar" ->
                \/ MatchAt(pat, k + 1, s, i)
                \/ /\ i <= Len(s)
                   /\ CharAt(s, i) # "\n"
                   /\ MatchAt(pat, k, s, i + 1)
           [] a.t = "digitplus" ->
                /\ i <= Len(s)
                /\ CharAt(s, i) \in Digits
                /\ \/ MatchAt(pat, k + 1, s, i + 1)
                   \/ MatchAt(pat, k, s, i + 1)
           [] a.t = "bos" ->
                /\ i = 1
                /\ MatchAt(pat, k + 1, s, i)
           [] a.t = "eos" ->
                /\ \/ i = Len(s) + 1
                   \/ i = Len(s) /\ CharAt(s, i) = "\n"
                /\ MatchAt(pat, k + 1, s, i)

\* bool(re.search(pat, s))
Search(pat, s) ==
    IF pat # <<>> /\ pat[1].t = "bos"
    THEN MatchAt(pat, 1, s, 1)
    ELSE \E i \in 1..(Len(s) + 1) : MatchAt(pat, 1, s, i)

\* needle in s, for two str
Contains(s, needle) == Search(Lit(needle), s)

---------------------------------------------------------------------------
(* Archives.  A package is what zipfile.ZipFile makes of a path or a       *)
(* buffer: kind "zip" with its entries in archive order, "notzip" (the     *)
(* bytes are no zip container) or "nofile" (a path that names no file).    *)
(* An entry is                                                             *)
(*   name      its name in namelist()                                       *)
(*   readErr   the exception ZipFile.read raises for it ("" for none; a     *)
(*             stored CRC that does not match raises BadZipFile)            *)
(*   utf8,text whether its bytes decode as UTF-8, and the decoded text      *)
(*   manifest  what XAPKManifest.model_validate_json makes of its bytes     *)
(*   apk       what zipfile.ZipFile makes of its bytes                      *)

NotZip == [kind |-> "notzip", entries |-> <<>>]
NoFile == [kind |-> "nofile", entries |-> <<>>]
Zip(es) == [kind |-> "zip", entries |-> es]

NoManifest == [valid |-> FALSE, split_apks |-> <<>>]

\* XAPKManifest.APK
APK(file, id) == [file |-> file, id |-> id]

\* An entry holding text.
TextEntry(name, text) ==
    [name |-> name, readErr |-> "", utf8 |-> TRUE, text |-> text,
     manifest |-> NoManifest, apk |-> NotZip]
\* An entry whose bytes are not UTF-8 (and neither JSON nor a zip container).
BinaryEntry(name) ==
    [name |-> name, readErr |-> "", utf8 |-> FALSE, text |-> "",
     manifest |-> NoManifest, apk |-> NotZip]
\* An entry whose stored CRC does not match its data.
CorruptEntry(name) ==
    [name |-> name, readErr |-> "BadZipFile", utf8 |-> FALSE, text |-> "",
     manifest |-> NoManifest, apk |-> NotZip]
\* A manifest.json that conforms to XAPKManifest, with these split_apks.
ManifestEntry(apks) ==
    [name |-> "manifest.json", readErr |-> "", utf8 |-> TRUE, text |-> "{}",
     manifest |-> [valid |-> TRUE, split_apks |-> apks], apk |-> NotZip]
\* A manifest.json that does not conform to XAPKManifest.
BrokenManifestEntry ==
    [name |-> "manifest.json", readErr |-> "", utf8 |-> TRUE, text |-> "{}",
     manifest |-> NoManifest, apk |-> NotZip]
\* An entry whose bytes are the package p.
ApkEntry(name, p) ==
    [name |-> name, readErr |-> "", utf8 |-> FALSE, text |-> "",
     manifest |-> NoManifest, apk |-> p]

\* ZipFile.namelist()
namelist(zip) == [i \in 1..Len(zip.entries) |-> zip.entries[i].name]

Range(f) == {f[i] : i \in DOMAIN f}

\* ZipFile.read(name): the last entry of that name; KeyError when there is none.
read(zip, name) ==
    LET idx == {i \in 1..Len(zip.entries) : zip.entries[i].name = name} IN
    IF idx = {} THEN [exc |-> "KeyError", entry |-> BinaryEntry(name)]
    ELSE LET e == zip.entries[CHOOSE i \in idx : \A j \in idx : j <= i] IN
         [exc |-> e.readErr, entry |-> e]

---------------------------------------------------------------------------
(* class Sdks(IntFlag) and the detectors.                                  *)

\* The members of Sdks, in the order of their registration in SdkDetectors.
Sdks ==
    <<"ANDROID_DALVIK", "ANDROID_KOTLIN", "KOTLIN_MULTI_PLATFORM",
      "REACT_NATIVE", "FLUTTER", "DOTNET", "XAMARIN", "MAUI", "CORDOVA",
      "IONIC", "TITANIUM", "QT", "UNITY", "UNREAL_ENGINE">>

SdkNames == Range(Sdks)

\* What a detector call comes to: a bool, or an exception.
Bool(b) == [exc |-> "", val |-> b]
Raised(e) == [exc |-> e, val |-> FALSE]

LibDir == Bos \o Lit("lib/") \o DotStar \o Lit("/")

is_android_dalvik(zip, name) ==
    Bool(Search(Lit(".dex") \o Eos, name))

is_android_kotlin(zip, name) ==
    Bool(Search(Bos \o Lit("kotlin/"), name))

is_kmp(zip, name) ==
    Bool(Search(DotStar \o Lit(".knm"), name))

is_react_native(zip, name) ==
    Bool(Search(DotStar \o Lit("index.android.bundle"), name))

is_flutter(zip, name) ==
    Bool(Search(LibDir \o Lit("libflutter.so"), name))

is_dotnet(zip, name) ==
    Bool(\/ Search(LibDir \o Lit("libmono") \o DotStar \o Lit(".so"), name)
         \/ Search(Bos \o Lit("assemblies/assemblies.blob"), name))

is_xamarin(zip, name) ==
    Bool(Search(LibDir \o Lit("libxamarin-app.so"), name))

\* The dot between Microsoft and Maui is not escaped in the source.
is_maui(zip, name) ==
    Bool(Search(LibDir \o DotStar \o Lit("Microsoft") \o Dot \o Lit("Maui")
                \o DotStar \o Lit(".so"), name))

is_cordova(zip, name) ==
    Bool(Search(Bos \o Lit("assets/www/cordova.js"), name))

\* The first test of is_ionic: the path of the entry.
IonicPath(name) == Search(Bos \o Lit("assets/www/manifest.js"), name)

\* The try block of is_ionic: only UnicodeDecodeError is caught.
IonicContent(zip, name) ==
    LET r == read(zip, name) IN
    IF r.exc # "" THEN Raised(r.exc)
    ELSE IF ~r.entry.utf8 THEN Bool(FALSE)
    ELSE Bool(Contains(r.entry.text, "Ionic"))

is_ionic(zip, name) ==
    IF ~IonicPath(name) THEN Bool(FALSE) ELSE IonicContent(zip, name)

is_titanium(zip, name) ==
    Bool(\/ Search(LibDir \o Lit("libti.") \o DotStar \o Lit(".so"), name)
         \/ name \in {"assets/Resources/ti.kernel.js.bin",
                      "assets/Resources/ti.main.js.bin"})

is_qt(zip, name) ==
    Bool(Search(LibDir \o Lit("libQt") \o DotStar \o Lit(".so"), name))

is_unity(zip, name) ==
    Bool(\/ Search(LibDir \o Lit("libunity.so"), name)
         \/ name = "assets/bin/Data/Resources/unity_builtin_extra")

is_unreal_engine(zip, name) ==
    Bool(Search(LibDir \o Lit("libUE") \o DigitPlus \o Lit(".so"), name))

\* SdkDetectors()[sdk](zip, name)
Detector(sdk, zip, name) ==
    CASE sdk = "ANDROID_DALVIK" -> is_android_dalvik(zip, name)
      [] sdk = "ANDROID_KOTLIN" -> is_android_kotlin(zip, name)
      [] sdk = "KOTLIN_MULTI_PLATFORM" -> is_kmp(zip, name)
      [] sdk = "REACT_NATIVE" -> is_react_native(zip, name)
      [] sdk = "FLUTTER" -> is_flutter(zip, name)
      [] sdk = "DOTNET" -> is_dotnet(zip, name)
      [] sdk = "XAMARIN" -> is_xamarin(zip, name)
      [] sdk = "MAUI" -> is_maui(zip, name)
      [] sdk = "CORDOVA" -> is_cordova(zip, name)
      [] sdk = "IONIC" -> is_ionic(zip, name)
      [] sdk = "TITANIUM" -> is_titanium(zip, name)
      [] sdk = "QT" -> is_qt(zip, name)
      [] sdk = "UNITY" -> is_unity(zip, name)
      [] sdk = "UNREAL_ENGINE" -> is_unreal_engine(zip, name)

---------------------------------------------------------------------------
(* core.scan, as a function of the package.                                *)

\* What a call of scan comes to: a flag set, or an exception.
Flags(f) == [exc |-> "", flags |-> f]
Raise(e) == [exc |-> e, flags |-> {}]

\* One entry name against the detectors in registry order, from the k-th on
\* (the inner iteration of itertools.product): a detector whose Sdks member
\* is already in detected_sdks is not called.
\* DetectEntry with detected_sdks = sdk in place of detected_sdks |= sdk.
RECURSIVE DetectEntryOverwrite(_, _, _, _, _)
DetectEntryOverwrite(zip, name, registry, k, detected) ==
    IF k > Len(registry) THEN Flags(detected)
    ELSE IF registry[k] \in detected
    THEN DetectEntryOverwrite(zip, name, registry, k + 1, detected)
    ELSE LET r == Detector(registry[k], zip, name) IN
         IF r.exc # "" THEN Raise(r.exc)
         ELSE DetectEntryOverwrite(zip, name, registry, k + 1,
                                   IF r.val THEN {registry[k]} ELSE detected)

\* DetectEntry leaving the entry at the first detector that is true.
RECURSIVE DetectEntryFirstHit(_, _, _, _, _)
DetectEntryFirstHit(zip, name, registry, k, detected) ==
    IF k > Len(registry) THEN Flags(detected)
    ELSE IF registry[k] \in detected
    THEN DetectEntryFirstHit(zip, name, registry, k + 1, detected)
    ELSE LET r == Detector(registry[k], zip, name) IN
         IF r.exc # "" THEN Raise(r.exc)
         ELSE IF r.val THEN Flags(detected \cup {registry[k]})
         ELSE DetectEntryFirstHit(zip, name, registry, k + 1, detected)

RECURSIVE DetectEntry(_, _, _, _, _)
DetectEntry(zip, name, registry, k, detected) ==
    IF k > Len(registry) THEN Flags(detected)
    ELSE IF registry[k] \in detected
    THEN DetectEntry(zip, name, registry, k + 1, detected)
    ELSE LET r == Detector(registry[k], zip, name) IN
         IF r.exc # "" THEN Raise(r.exc)
         ELSE DetectEntry(zip, name, registry, k + 1,
                          IF r.val THEN detected \cup {registry[k]} ELSE detected)

\* The loop of scan over the names from the i-th on.
RECURSIVE ScanLoop(_, _, _, _, _)
ScanLoop(zip, names, registry, i, detected) ==
    IF i > Len(names) THEN Flags(detected)
    ELSE LET r == DetectEntry(zip, names[i], registry, 1, detected) IN
         IF r.exc # "" THEN r
         ELSE ScanLoop(zip, names, registry, i + 1, r.flags)

\* Whether the archive is manifest-wrapped.
HasManifest(zip) == "manifest.json" \in Range(namelist(zip))

\* XAPKManifest.model_validate_json(zip_file.read("manifest.json"))
ReadManifest(zip) ==
    LET r == read(zip, "manifest.json") IN
    IF r.exc # "" THEN [exc |-> r.exc, manifest |-> NoManifest]
    ELSE IF ~r.entry.manifest.valid
    THEN [exc |-> "ValidationError", manifest |-> NoManifest]
    ELSE [exc |-> "", manifest |-> r.entry.manifest]

\* XAPKManifest.base_apk: the file of the first member whose id is "base",
\* None when there is none.  scan does not use it.
None == "<None>"
base_apk(manifest) ==
    LET apks == manifest.split_apks
        idx == {i \in 1..Len(apks) : apks[i].id = "base"}
    IN IF idx = {} THEN None
       ELSE apks[CHOOSE i \in idx : \A j \in idx : i <= j].file

\* io.BytesIO(zip_file.read(apk.file)), for the i-th of split_apks
ReadMember(zip, apks, i) ==
    LET r == read(zip, apks[i].file) IN
    [exc |-> r.exc, pkg |-> r.entry.apk]

\* The value of reduce(lambda x, y: x | y, ...) once its iterable is
\* exhausted: with no item and no initial value, reduce raises TypeError.
ReduceEnd(apks, acc) ==
    IF Len(apks) = 0 THEN Raise("TypeError") ELSE Flags(acc)

RECURSIVE scan(_)
RECURSIVE ScanMembers(_, _, _, _)

\* reduce over (scan(io.BytesIO(zip_file.read(apk.file))) for apk in split_apks),
\* from the i-th member on
ScanMembers(zip, apks, i, acc) ==
    IF i > Len(apks) THEN ReduceEnd(apks, acc)
    ELSE LET m == ReadMember(zip, apks, i) IN
         IF m.exc # "" THEN Raise(m.exc)
         ELSE LET r == scan(m.pkg) IN
              IF r.exc # "" THEN r
              ELSE ScanMembers(zip, apks, i + 1, acc \cup r.flags)

\* OpenError taking bytes that are no zip container for an empty archive.
OpenErrorLenient(pkg) ==
    IF pkg.kind = "nofile" THEN "FileNotFoundError" ELSE ""

\* zipfile.ZipFile(file_path): the exception its constructor raises, if any
OpenError(pkg) ==
    CASE pkg.kind = "nofile" -> "FileNotFoundError"
      [] pkg.kind = "notzip" -> "BadZipFile"
      [] OTHER -> ""

scan(pkg) ==
    IF OpenError(pkg) # "" THEN Raise(OpenError(pkg))
    ELSE IF HasManifest(pkg)
    THEN LET m == ReadManifest(pkg) IN
         IF m.exc # "" THEN Raise(m.exc)
         ELSE ScanMembers(pkg, m.manifest.split_apks, 1, {})
    ELSE ScanLoop(pkg, namelist(pkg), Sdks, 1, {})

---------------------------------------------------------------------------
(* core.scan, step by step.  A frame of the stack is one call:             *)
(*   pkg     the package it was called on                                   *)
(*   pc      "open"    before zipfile.ZipFile(file_path)                    *)
(*           "branch"  inside the with block, before the manifest test      *)
(*           "members" in reduce, between two members of split_apks         *)
(*           "called"  in reduce, waiting for scan of a member              *)
(*           "loop"    in the loop over namelist()                          *)
(*   handle  its ZipFile (0 before it is open)                              *)
(*   i       the next member of split_apks, or the next entry name          *)
(*   acc     the accumulator of reduce, or detected_sdks                    *)

Frame(pkg) == [pkg |-> pkg, pc |-> "open", handle |-> 0, i |-> 1, acc |-> {}]

NoRet == [kind |-> "none", exc |-> "", flags |-> {}]
RetValue(f) == [kind |-> "value", exc |-> "", flags |-> f]
RetRaise(e) == [kind |-> "raise", exc |-> e, flags |-> {}]
RetOf(r) == IF r.exc # "" THEN RetRaise(r.exc) ELSE RetValue(r.flags)

Top == stack[Len(stack)]
Pop == SubSeq(stack, 1, Len(stack) - 1)
SetTop(f) == [stack EXCEPT ![Len(stack)] = f]
Max(a, b) == IF a >= b THEN a ELSE b

\* WithExit closing the archive on a return only, as a close() before each
\* return would.
WithExitOnReturnOnly(hs, h, raising) == IF raising THEN hs ELSE hs \ {h}

\* ZipFile.__exit__: the with statement closes the archive when the block is
\* left, by a return or by an exception.
WithExit(hs, h, raising) == hs \ {h}

\* The top call leaves its with block with r (a return or an exception).
Leave(r) ==
    /\ stack' = Pop
    /\ handles' = WithExit(handles, Top.handle, r.kind = "raise")
    /\ ret' = r

Running == stack # <<>> /\ ret.kind = "none"

\* with zipfile.ZipFile(file_path) as zip_file:
ScanOpen ==
    /\ Running
    /\ Top.pc = "open"
    /\ IF OpenError(Top.pkg) # ""
       THEN /\ stack' = Pop
            /\ ret' = RetRaise(OpenError(Top.pkg))
            /\ UNCHANGED <<handles, nextHandle>>
       ELSE /\ stack' = SetTop([Top EXCEPT !.pc = "branch", !.handle = nextHandle])
            /\ handles' = handles \cup {nextHandle}
            /\ nextHandle' = nextHandle + 1
            /\ UNCHANGED ret
    /\ UNCHANGED <<root, calls, maxDepth, cli>>

\* if "manifest.json" in zip_file.namelist(): manifest = ...
ScanBranch ==
    /\ Running
    /\ Top.pc = "branch"
    /\ IF HasManifest(Top.pkg)
       THEN IF ReadManifest(Top.pkg).exc # ""
            THEN Leave(RetRaise(ReadManifest(Top.pkg).exc))
            ELSE /\ stack' = SetTop([Top EXCEPT !.pc = "members"])
                 /\ UNCHANGED <<handles, ret>>
       ELSE /\ stack' = SetTop([Top EXCEPT !.pc = "loop"])
            /\ UNCHANGED <<handles, ret>>
    /\ UNCHANGED <<nextHandle, root, calls, maxDepth, cli>>

\* SplitApks with the base member alone.
SplitApksBaseOnly(f) ==
    SelectSeq(ReadManifest(f.pkg).manifest.split_apks, LAMBDA a : a.id = "base")

\* for apk in manifest.split_apks
SplitApks(f) == ReadManifest(f.pkg).manifest.split_apks

\* The generator yields its next item: scan(io.BytesIO(zip_file.read(apk.file)))
ScanCallMember ==
    /\ Running
    /\ Top.pc = "members"
    /\ Top.i <= Len(SplitApks(Top))
    /\ LET m == ReadMember(Top.pkg, SplitApks(Top), Top.i) IN
       IF m.exc # ""
       THEN /\ Leave(RetRaise(m.exc))
            /\ UNCHANGED <<calls, maxDepth>>
       ELSE /\ stack' = Append(SetTop([Top EXCEPT !.pc = "called"]), Frame(m.pkg))
            /\ calls' = calls + 1
            /\ maxDepth' = Max(maxDepth, Len(stack) + 1)
            /\ UNCHANGED <<handles, ret>>
    /\ UNCHANGED <<nextHandle, root, cli>>

\* scan of a member returned: x | y
ScanMemberReturn ==
    /\ stack # <<>>
    /\ Top.pc = "called"
    /\ ret.kind = "value"
    /\ stack' = SetTop([Top EXCEPT !.pc = "members", !.i = @ + 1,
                                   !.acc = @ \cup ret.flags])
    /\ ret' = NoRet
    /\ UNCHANGED <<handles, nextHandle, root, calls, maxDepth, cli>>

\* scan of a member raised: the exception leaves the generator, reduce and
\* the with block of the caller.
ScanUnwind ==
    /\ stack # <<>>
    /\ Top.pc = "called"
    /\ ret.kind = "raise"
    /\ Leave(ret)
    /\ UNCHANGED <<nextHandle, root, calls, maxDepth, cli>>

\* The generator is exhausted: return reduce(...)
ScanReduceDone ==
    /\ Running
    /\ Top.pc = "members"
    /\ Top.i > Len(SplitApks(Top))
    /\ Leave(RetOf(ReduceEnd(SplitApks(Top), Top.acc)))
    /\ UNCHANGED <<nextHandle, root, calls, maxDepth, cli>>

\* One entry name of the loop, against every detector.
ScanEntry ==
    /\ Running
    /\ Top.pc = "loop"
    /\ Top.i <= Len(namelist(Top.pkg))
    /\ LET r == DetectEntry(Top.pkg, namelist(Top.pkg)[Top.i], Sdks, 1, Top.acc) IN
       IF r.exc # ""
       THEN Leave(RetRaise(r.exc))
       ELSE /\ stack' = SetTop([Top EXCEPT !.i = @ + 1, !.acc = r.flags])
            /\ UNCHANGED <<handles, ret>>
    /\ UNCHANGED <<nextHandle, root, calls, maxDepth, cli>>

\* return detected_sdks
ScanLoopDone ==
    /\ Running
    /\ Top.pc = "loop"
    /\ Top.i > Len(namelist(Top.pkg))
    /\ Leave(RetValue(Top.acc))
    /\ UNCHANGED <<nextHandle, root, calls, maxDepth, cli>>

---------------------------------------------------------------------------
(* The inputs.                                                             *)

\* Entry names: for every detector one that matches and near misses.
SampleNames ==
    {"classes.dex", "classes.dex.bak", "classes2.dex",
     "kotlin/kotlin.kotlin_builtins", "Kotlin/Unit.class", "META-INF/kotlin/x",
     "kotlin/collections/collections.knm", "default/linkdata/root_package/0_.knm",
     "assets/index.android.bundle",
     "lib/arm64-v8a/libflutter.so", "libs/arm64-v8a/libflutter.so",
     "lib/libflutter.so",
     "lib/arm64-v8a/libmonosgen-2.0.so", "assemblies/assemblies.blob",
     "lib/arm64-v8a/libmono-component-Microsoft-Maui.so",
     "lib/arm64-v8a/libxamarin-app.so",
     "lib/arm64-v8a/libMicrosoft.Maui.so", "lib/x86/aot-MicrosoftxMaui.dll.so",
     "assets/www/cordova.js", "assets/www/cordova.js.map",
     "lib/arm64-v8a/libti.main.so", "assets/Resources/ti.main.js.bin",
     "assets/Resources/ti.kernel.js.bin", "lib/arm64-v8a/libtitanium.so",
     "lib/arm64-v8a/libQt5Core_arm64-v8a.so",
     "lib/arm64-v8a/libunity.so",
     "assets/bin/Data/Resources/unity_builtin_extra",
     "lib/arm64-v8a/libUE4.so", "lib/arm64-v8a/libUE.so",
     "lib/arm64-v8a/libUE51.so",
     "AndroidManifest.xml", "resources.arsc"}

\* Names at the path is_ionic looks for; the pattern is not anchored at its
\* end, so a web manifest and a directory placeholder are among them.
IonicNames ==
    {"assets/www/manifest.js", "assets/www/manifest.json",
     "assets/www/manifest.js/"}

SampleEntries ==
    {BinaryEntry(n) : n \in SampleNames}
    \cup {TextEntry(n, "Ionic Framework v4") : n \in IonicNames}
    \cup {TextEntry(n, "no marker here") : n \in IonicNames}
    \cup {TextEntry(n, "") : n \in IonicNames}
    \cup {BinaryEntry(n) : n \in IonicNames}
    \cup {CorruptEntry(n) : n \in IonicNames}
    \cup {TextEntry("www/manifest.js", "Ionic Framework v4"),
          TextEntry("assets/www/manifest.js.dex", "Ionic Framework v4"),
          CorruptEntry("assets/www/manifest.js.dex")}

\* The entries the archives of several entries are built from.
EntryPool ==
    {BinaryEntry("classes.dex"),
     BinaryEntry("lib/arm64-v8a/libflutter.so"),
     BinaryEntry("resources.arsc"),
     TextEntry("assets/www/manifest.js", "Ionic Framework v4"),
     TextEntry("assets/www/manifest.js", "no marker here"),
     BinaryEntry("assets/www/manifest.json"),
     CorruptEntry("assets/www/manifest.json")}

SeqsUpTo(S, n) == UNION {[1..k -> S] : k \in 0..n}

\* Plain archives.
PlainArchives ==
    {Zip(<<e>>) : e \in SampleEntries}
    \cup {Zip(es) : es \in SeqsUpTo(EntryPool, MaxEntries)}

\* The packages the members of a manifest-wrapped package are drawn from.
MemberPool ==
    {Zip(<<BinaryEntry("classes.dex")>>),
     Zip(<<BinaryEntry("lib/arm64-v8a/libflutter.so"),
           BinaryEntry("resources.arsc")>>),
     Zip(<<>>),
     NotZip}

ApkFiles == {"base.apk", "config.arm64_v8a.apk", "missing.apk"}
ApkIds == {"base", "config.arm64_v8a"}
ApkDescriptors == {APK(f, id) : f \in ApkFiles, id \in ApkIds}

\* A manifest-wrapped package: the manifest, an icon and two member archives.
Xapk(manifestEntry, base, config) ==
    Zip(<<BinaryEntry("icon.png"), manifestEntry,
          ApkEntry("base.apk", base),
          ApkEntry("config.arm64_v8a.apk", config)>>)

SplitPackages ==
    {Xapk(ManifestEntry(apks), b, c) :
        apks \in SeqsUpTo(ApkDescriptors, MaxMembers),
        b \in MemberPool, c \in MemberPool}
    \cup {Xapk(BrokenManifestEntry, b, b) : b \in MemberPool}
    \cup {Xapk(CorruptEntry("manifest.json"), b, b) : b \in MemberPool}

\* p wrapped in a manifest that names it as the base member.
Wrap(p) ==
    Zip(<<ManifestEntry(<<APK("base.apk", "base")>>), ApkEntry("base.apk", p)>>)

RECURSIVE WrapTimes(_, _)
WrapTimes(p, k) == IF k = 0 THEN p ELSE Wrap(WrapTimes(p, k - 1))

NestedPackages ==
    {WrapTimes(p, k) : p \in MemberPool \cup {Xapk(BrokenManifestEntry, NotZip, NotZip)},
                       k \in 2..MaxNesting}

Packages == {NotZip} \cup PlainArchives \cup SplitPackages \cup NestedPackages

\* The files that exist.
FS ==
    [p \in {"dalvik.apk", "flutter.apk", "broken.apk", "split.xapk",
            "badsplit.xapk"} |->
        CASE p = "dalvik.apk" -> Zip(<<BinaryEntry("classes.dex")>>)
          [] p = "flutter.apk" ->
                Zip(<<BinaryEntry("lib/arm64-v8a/libflutter.so"),
                      BinaryEntry("classes.dex")>>)
          [] p = "broken.apk" -> NotZip
          [] p = "split.xapk" ->
                Xapk(ManifestEntry(<<APK("base.apk", "base"),
                                     APK("config.arm64_v8a.apk", "config.arm64_v8a")>>),
                     Zip(<<BinaryEntry("classes.dex")>>),
                     Zip(<<BinaryEntry("lib/arm64-v8a/libunity.so")>>))
          [] p = "badsplit.xapk" ->
                Xapk(ManifestEntry(<<APK("base.apk", "base")>>), NotZip, NotZip)]

\* What zipfile.ZipFile finds at Path(s).
FileAt(s) == IF s \in DOMAIN FS THEN FS[s] ELSE NoFile

\* The paths given as arguments: typer checks that each exists.
ArgBatches == UNION {[1..k -> DOMAIN FS] : k \in 1..MaxBatch}

\* The lines sys.stdin.readlines() returns: each keeps its line end, and the
\* last one may have none.
StdinLines ==
    {<<>>}
    \cup UNION {{[i \in 1..k |-> IF i < k \/ nl THEN ps[i] \o "\n" ELSE ps[i]] :
                    ps \in [1..k -> DOMAIN FS], nl \in BOOLEAN} : k \in 1..MaxBatch}

---------------------------------------------------------------------------
(* cli.scan.  cli is                                                        *)
(*   stdin    the --stdin option                                            *)
(*   items    the paths of file_iterable, as str                            *)
(*   posZip   the next item of the iterator zip() takes the paths from      *)
(*   posMap   the next item of the iterator map(scan_apk, ...) reads        *)
(*   pc       "off" (core.scan is called directly), "next", "scanning",     *)
(*            "done" (the loop ended), "aborted" (an exception left it)     *)
(*   path     the path zip() took for the record being built                *)
(*   records  the lines printed, as [path, sdks]                            *)

CliOff ==
    [stdin |-> FALSE, items |-> <<>>, posZip |-> 1, posMap |-> 1, pc |-> "off",
     path |-> "", records |-> <<>>]

\* for path, sdks in zip(file_iterable, map(scan_apk, file_iterable)):
\* zip() takes the next path, then the next item of map(), which takes its
\* own next path and calls scan_apk on it.  With --stdin file_iterable is a
\* map object, an iterator: zip() and map() advance the same one.  Without,
\* it is the list files, and each has an iterator of its own.
CliNext ==
    /\ cli.pc = "next"
    /\ stack = <<>>
    /\ LET n == Len(cli.items)
           pz == cli.posZip
           pm == IF cli.stdin THEN pz + 1 ELSE cli.posMap
       IN
       IF pz > n
       THEN /\ cli' = [cli EXCEPT !.pc = "done"]
            /\ UNCHANGED <<stack, root, calls, maxDepth>>
       ELSE IF pm > n
       THEN /\ cli' = [cli EXCEPT !.pc = "done", !.posZip = pz + 1,
                                  !.posMap = IF cli.stdin THEN pz + 1 ELSE @]
            /\ UNCHANGED <<stack, root, calls, maxDepth>>
       ELSE /\ cli' = [cli EXCEPT !.pc = "scanning", !.path = cli.items[pz],
                                  !.posZip = IF cli.stdin THEN pm + 1 ELSE pz + 1,
                                  !.posMap = pm + 1]
            /\ stack' = <<Frame(FileAt(cli.items[pm]))>>
            /\ root' = FileAt(cli.items[pm])
            /\ calls' = calls + 1
            /\ maxDepth' = Max(maxDepth, 1)
    /\ UNCHANGED <<ret, handles, nextHandle>>

\* print(json.dumps({"path": str(path), "sdks": [sdk.name for sdk in sdks]}))
CliPrint ==
    /\ cli.pc = "scanning"
    /\ stack = <<>>
    /\ ret.kind = "value"
    /\ cli' = [cli EXCEPT !.pc = "next",
                          !.records = Append(@, [path |-> cli.path, sdks |-> ret.flags])]
    /\ ret' = NoRet
    /\ UNCHANGED <<stack, handles, nextHandle, root, calls, maxDepth>>

\* scan_apk raised: nothing in cli.scan catches it, and the command ends.
CliAbort ==
    /\ cli.pc = "scanning"
    /\ stack = <<>>
    /\ ret.kind = "raise"
    /\ cli' = [cli EXCEPT !.pc = "aborted"]
    /\ UNCHANGED <<stack, ret, handles, nextHandle, root, calls, maxDepth>>

---------------------------------------------------------------------------
(* The specifications.                                                     *)

\* core.scan called on one package.
Init ==
    /\ root \in Packages
    /\ stack = <<Frame(root)>>
    /\ ret = NoRet
    /\ handles = {}
    /\ nextHandle = 1
    /\ calls = 1
    /\ maxDepth = 1
    /\ cli = CliOff

Next ==
    \/ ScanOpen
    \/ ScanBranch
    \/ ScanCallMember
    \/ ScanMemberReturn
    \/ ScanUnwind
    \/ ScanReduceDone
    \/ ScanEntry
    \/ ScanLoopDone

Spec == Init /\ [][Next]_vars

\* The command cli.scan run on a batch of paths.
InitCli ==
    /\ \E stdin \in BOOLEAN :
       \E items \in (IF stdin THEN StdinLines ELSE ArgBatches) :
          cli = [CliOff EXCEPT !.stdin = stdin, !.items = items, !.pc = "next"]
    /\ root = NoFile
    /\ stack = <<>>
    /\ ret = NoRet
    /\ handles = {}
    /\ nextHandle = 1
    /\ calls = 0
    /\ maxDepth = 0

NextCli ==
    \/ CliNext
    \/ CliPrint
    \/ CliAbort
    \/ ScanOpen
    \/ ScanBranch
    \/ ScanCallMember
    \/ ScanMemberReturn
    \/ ScanUnwind
    \/ ScanReduceDone
    \/ ScanEntry
    \/ ScanLoopDone

SpecCli == InitCli /\ [][NextCli]_vars

---------------------------------------------------------------------------
(* Properties.                                                             *)

\* The outermost call of core.scan has ended, with ret.
Done == stack = <<>> /\ ret.kind # "none"

IsPlain(p) == p.kind = "zip" /\ ~HasManifest(p)
\* A manifest-wrapped package whose manifest.json conforms to the schema.
IsValidSplit(p) == p.kind = "zip" /\ HasManifest(p) /\ ReadManifest(p).exc = ""
ManifestOf(p) == ReadManifest(p).manifest

\* The two renderings of core.scan agree: the step-by-step scan ends with
\* what the function scan gives.
StepwiseAgrees == Done => ret = RetOf(scan(root))

\* ---- C1 ----------------------------------------------------------------

HasBase(p) == IsValidSplit(p) /\ base_apk(ManifestOf(p)) # None
BaseBytes(p) == read(p, base_apk(ManifestOf(p)))

\* What scan makes of the i-th listed member, read errors included.
MemberResult(p, i) ==
    LET m == ReadMember(p, ManifestOf(p).split_apks, i) IN
    IF m.exc # "" THEN Raise(m.exc) ELSE scan(m.pkg)

\* Every file listed in split_apks is an entry of the package.
AllMembersPresent(p) ==
    \A i \in 1..Len(ManifestOf(p).split_apks) :
        ReadMember(p, ManifestOf(p).split_apks, i).exc = ""

C2_NoBaseGivesEmpty ==
    (Done /\ IsValidSplit(root) /\ base_apk(ManifestOf(root)) = None)
        => ret = RetValue({})

\* ---- C3 ----------------------------------------------------------------

\* The flags for which some entry of p is evidence, an entry that cannot be
\* read or decoded being none.
Evidence(p) ==
    {d \in SdkNames : \E n \in Range(namelist(p)) :
        Detector(d, p, n) = Bool(TRUE)}

\* Some entry at the path is_ionic looks for cannot be read or decoded.
HasBadIonicTarget(p) ==
    \E n \in Range(namelist(p)) :
        IonicPath(n) /\ (read(p, n).exc # "" \/ ~read(p, n).entry.utf8)

\* C3 as stated: when the entry at the Ionic path cannot be decoded or read,
\* no error reaches the caller of scan, which gives the flags the other
\* entries are evidence of.
C3_EntryFailureAbsorbed ==
    (Done /\ IsPlain(root) /\ HasBadIonicTarget(root))
        => ret = RetValue(Evidence(root))

\* ---- C4 ----------------------------------------------------------------

\* The bytes are no zip container, or a manifest.json that is present does
\* not conform, here or in the base member scan recurses into.
RECURSIVE ArchiveFailure(_)
ArchiveFailure(p) ==
    \/ p.kind = "notzip"
    \/ /\ p.kind = "zip"
       /\ HasManifest(p)
       /\ read(p, "manifest.json").exc = ""
       /\ \/ ~read(p, "manifest.json").entry.manifest.valid
          \/ /\ HasBase(p)
             /\ BaseBytes(p).exc = ""
             /\ ArchiveFailure(BaseBytes(p).entry.apk)

\* C4: an archive or manifest failure ends scan with an exception, never
\* with a flag set; on the package itself it is BadZipFile for bytes that
\* are no zip container and ValidationError for a manifest that does not
\* conform.
C4_FailuresRaise ==
    (Done /\ ArchiveFailure(root)) =>
        /\ ret.kind = "raise"
        /\ root.kind = "notzip" => ret.exc = "BadZipFile"
        /\ (root.kind = "zip" /\ read(root, "manifest.json").exc = ""
              /\ ~read(root, "manifest.json").entry.manifest.valid)
             => ret.exc = "ValidationError"

\* scan recursed into a base member that is no zip container, and raised.
C4_Witness ==
    /\ Done
    /\ HasBase(root)
    /\ BaseBytes(root).exc = ""
    /\ BaseBytes(root).entry.apk = NotZip
    /\ maxDepth >= 2
    /\ ret = RetRaise("BadZipFile")

\* ---- C5 ----------------------------------------------------------------

\* No detector raises on any entry name of p.
NoPredicateRaises(p) ==
    \A n \in Range(namelist(p)) : \A d \in SdkNames : Detector(d, p, n).exc = ""

Orderings(q) ==
    {[i \in 1..Len(q) |-> q[f[i]]] :
        f \in {g \in [1..Len(q) -> 1..Len(q)] : \A i, j \in 1..Len(q) : g[i] = g[j] => i = j}}

Reverse(q) == [i \in 1..Len(q) |-> q[Len(q) + 1 - i]]
Rotate(q, k) == [i \in 1..Len(q) |-> q[((i + k - 1) % Len(q)) + 1]]

\* Iteration orders of the registry: the order of registration, its
\* reverse, and a rotation of each.
RegistryOrders ==
    {Sdks, Reverse(Sdks), Rotate(Sdks, Len(Sdks) \div 2),
     Rotate(Reverse(Sdks), Len(Sdks) \div 3)}

\* C5: for a plain package on which no detector raises, the result holds an
\* identifier exactly when its detector is true for some entry name, for
\* every order of the names and of the registry; it is empty when no entry
\* matches.
C5_UnionOfEvidence ==
    (Done /\ IsPlain(root) /\ NoPredicateRaises(root)) =>
        /\ ret = RetValue({d \in SdkNames :
                    \E n \in Range(namelist(root)) : Detector(d, root, n).val})
        /\ \A names \in Orderings(namelist(root)) :
           \A registry \in RegistryOrders :
              ScanLoop(root, names, registry, 1, {}) = Flags(ret.flags)

\* Two entries, each evidence of another SDK.
C5_Witness ==
    /\ Done
    /\ IsPlain(root)
    /\ NoPredicateRaises(root)
    /\ Len(root.entries) >= 2
    /\ Cardinality(ret.flags) >= 2
    /\ \A n \in Range(namelist(root)) :
          {d \in SdkNames : Detector(d, root, n).val} # ret.flags

\* ---- C6 ----------------------------------------------------------------

IsSingleEntry(p) == IsPlain(p) /\ Len(p.entries) = 1

\* The detector of d is true for the entry: its name matches the pattern.
Fires(d, p, name) == Detector(d, p, name) = Bool(TRUE)

\* C6 as stated, for an entry that can be read: an archive whose only entry
\* matches the pattern of a detector gives exactly the identifier of that
\* detector.
C6_ExactlyThatSdk ==
    (Done /\ IsSingleEntry(root) /\ root.entries[1].readErr = "") =>
        \A d \in SdkNames :
            Fires(d, root, root.entries[1].name) => ret = RetValue({d})

\* C6 amended: an archive whose only entry matches the pattern of a detector
\* D gives the identifiers of all the detectors whose pattern matches that
\* entry, D among them, and so more than D's when patterns overlap; when the
\* entry is at the Ionic path and cannot be read, scan raises the error of
\* the read instead.
C6_EveryMatchingSdk ==
    (Done /\ IsSingleEntry(root)) =>
        LET e == root.entries[1] IN
        \A d \in SdkNames :
            Fires(d, root, e.name) =>
                IF IonicPath(e.name) /\ e.readErr # ""
                THEN ret = RetRaise(e.readErr)
                ELSE /\ ret.kind = "value"
                     /\ d \in ret.flags
                     /\ \A d2 \in SdkNames :
                           d2 \in ret.flags <=> Fires(d2, root, e.name)

\* One entry name gave two identifiers.
C6_Witness ==
    /\ Done
    /\ IsSingleEntry(root)
    /\ ret.kind = "value"
    /\ Cardinality(ret.flags) = 2

\* ---- C7 ----------------------------------------------------------------

CliEnded == cli.pc \in {"done", "aborted"}

\* C7 as stated: every record pairs a path with the flags of scan of that
\* path, and every input whose scan succeeds has its record, whatever
\* happens to the other inputs.
C7_PerInputRecords ==
    CliEnded =>
        /\ \A k \in 1..Len(cli.records) :
              scan(FileAt(cli.records[k].path)) = Flags(cli.records[k].sdks)
        /\ \A i \in 1..Len(cli.items) :
              scan(FileAt(cli.items[i])).exc = ""
                 => \E k \in 1..Len(cli.records) : cli.records[k].path = cli.items[i]

\* ---- C8 ----------------------------------------------------------------

\* How many manifests wrap the innermost base member of p.
RECURSIVE Nesting(_)
Nesting(p) ==
    IF HasBase(p) /\ BaseBytes(p).exc = ""
    THEN 1 + Nesting(BaseBytes(p).entry.apk)
    ELSE 0

\* C8 as stated: there is a small constant such that scan of a package
\* nested deeper than it ends with RecursionLimitError and descends no
\* further.
C8_RecursionCapped ==
    \E cap \in 1..(MaxNesting - 1) :
        /\ maxDepth <= cap + 1
        /\ (Done /\ Nesting(root) > cap) => ret = RetRaise("RecursionLimitError")

\* ---- C9 ----------------------------------------------------------------

\* One entry name against every detector, whatever was detected before.
RECURSIVE DetectEntryAll(_, _, _, _, _)
DetectEntryAll(zip, name, registry, k, detected) ==
    IF k > Len(registry) THEN Flags(detected)
    ELSE LET r == Detector(registry[k], zip, name) IN
         IF r.exc # "" THEN Raise(r.exc)
         ELSE DetectEntryAll(zip, name, registry, k + 1,
                             IF r.val THEN detected \cup {registry[k]} ELSE detected)

\* The loop that calls every detector on every entry name.
RECURSIVE ScanLoopAll(_, _, _, _, _)
ScanLoopAll(zip, names, registry, i, detected) ==
    IF i > Len(names) THEN Flags(detected)
    ELSE LET r == DetectEntryAll(zip, names[i], registry, 1, detected) IN
         IF r.exc # "" THEN r
         ELSE ScanLoopAll(zip, names, registry, i + 1, r.flags)

\* C9 as stated: on every plain archive the loop that skips the detectors
\* of the identifiers already found ends as the loop that calls them all.
C9_SkipIsNeutral ==
    (Done /\ IsPlain(root))
        => ret = RetOf(ScanLoopAll(root, namelist(root), Sdks, 1, {}))

\* ---- C10 ---------------------------------------------------------------

\* The calls that are inside their with block.
Entered == {k \in 1..Len(stack) : stack[k].pc # "open"}

\* C10: every call inside its with block holds one open archive of its
\* own, no other archive is open, a call opens at most one, and none is
\* open once the outermost call has returned or raised.
C10_HandlesScoped ==
    /\ handles = {stack[k].handle : k \in Entered}
    /\ Cardinality(handles) = Cardinality(Entered)
    /\ nextHandle - 1 <= calls
    /\ stack = <<>> => handles = {}

\* scan raised after two archives had been opened, and none is left open.
C10_Witness ==
    /\ Done
    /\ ret.kind = "raise"
    /\ nextHandle >= 3
    /\ handles = {}

==========================================================================
